---- MODULE Spec2Model ----
(***************************************************************************)
(* State-machine model of server.js: a Socket.IO chat relay whose rooms    *)
(* and messages are persisted through Mongoose models Room and Message.    *)
(*                                                                         *)
(* Every async handler is cut at its awaits: one action applies one store  *)
(* call and runs the handler's synchronous code up to the next await.      *)
(* Every store call can also reject; the handler's catch block then runs.  *)
(* What a handler emitted is visible in `out` in the state its last step   *)
(* leads to.  Handlers of different sockets interleave at their awaits; a  *)
(* socket takes its next event when its own handler has returned.          *)
(***************************************************************************)
EXTENDS Integers, Sequences, FiniteSets, TLC

\* ------------------------------------------------------------------ bounds
Conns == {"c1", "c2"}
RoomIds == {"r1", "r2"}
Usernames == {"alice", "bob"}
Senders == {"alice"}
Texts == {"hi"}
MaxMsgs == 2
MaxClock == 1

\* .limit(50) of the join-room query, scaled down with the other bounds.
RecentLimit == 1

\* ------------------------------------------------------------------ values
\* undefined / unset string field (falsy in the `socket.roomId && ...` test)
Unset == ""

\* Room.findOne resolving to null
NoRoom == [exists |-> FALSE, participants |-> <<>>]

NoMsg == [id |-> 0, roomId |-> Unset, sender |-> Unset, text |-> Unset, timestamp |-> 0]

NoResp == [status |-> 0, room |-> NoRoom, messages |-> <<>>]

Range(s) == {s[i] : i \in 1..Len(s)}

\* ------------------------------------------------------------------ state
VARIABLES
    status,      \* status[c]: "none" | "connected" | "disconnected"
    bound,       \* bound[c]: socket.roomId / socket.username
    subscribed,  \* subscribed[c]: rooms of the adapter the socket is in
    h,           \* h[c]: the handler of socket c suspended at an await
    rooms,       \* Room collection, keyed by its unique roomId
    messages,    \* Message collection
    nextMsgId,   \* next Message _id
    clock,       \* Date.now()
    out,         \* what the handler (or route) that just completed produced
    joinSeq,     \* history: usernames of the join-room handlers run on a room
    joinFault,   \* history: a store call of one of those handlers rejected
    emptied,     \* history: the disconnect that found [username] in a room
    joinedAs,    \* history: the <<roomId, username>> a socket joined as
    faulted,     \* history: a store call was rejected
    joinStart,   \* history: socket and Room as the running join-room found them
    inbox        \* history: the new-message events a socket received, in order

vars == <<status, bound, subscribed, h, rooms, messages, nextMsgId, clock, out,
          joinSeq, joinFault, emptied, joinedAs, faulted, joinStart, inbox>>

roomHistory == <<joinSeq, joinFault, emptied>>
socketHistory == <<joinedAs, faulted, joinStart, inbox>>
history == <<roomHistory, socketHistory>>

\* no handler of the socket is suspended.  doc is the Room document the handler
\* holds; isNew: it was built by new Room(); changed: the handler modified
\* its participants; gone / stale: since it was read, the stored document
\* was deleted / got another version (__v).
NoHandler == [op |-> "none", pc |-> "done", roomId |-> Unset, username |-> Unset,
              doc |-> NoRoom, isNew |-> FALSE, changed |-> FALSE, gone |-> FALSE,
              stale |-> FALSE, msg |-> NoMsg]

NoOut == [by |-> Unset, op |-> "none", ok |-> TRUE, roomId |-> Unset,
          username |-> Unset, events |-> <<>>, resp |-> NoResp]

Poison == <<Unset>>

\* no join-room is running
NoStart == [bound |-> [roomId |-> Unset, username |-> Unset], subscribed |-> {},
            room |-> NoRoom]

Init ==
    /\ status = [c \in Conns |-> "none"]
    /\ bound = [c \in Conns |-> [roomId |-> Unset, username |-> Unset]]
    /\ subscribed = [c \in Conns |-> {}]
    /\ h = [c \in Conns |-> NoHandler]
    /\ rooms = [r \in RoomIds |-> NoRoom]
    /\ messages = {}
    /\ nextMsgId = 1
    /\ clock = 0
    /\ out = NoOut
    /\ joinSeq = [r \in RoomIds |-> <<>>]
    /\ joinFault = [r \in RoomIds |-> FALSE]
    /\ emptied = [r \in RoomIds |-> "no"]
    /\ joinedAs = [c \in Conns |-> {}]
    /\ faulted = FALSE
    /\ joinStart = NoStart
    /\ inbox = [c \in Conns |-> <<>>]

\* ------------------------------------------------------------------ Socket.IO
\* io.to(roomId): every socket in the room
InRoom(r) == {c \in Conns : r \in subscribed[c]}

\* mutant: the emitting socket is not left out (io.to instead of socket.to)
OthersInRoomAndSelf(c, r) == InRoom(r)

\* socket.to(roomId): every socket in the room except the emitting one
OthersInRoom(c, r) == InRoom(r) \ {c}

RECURSIVE SetToSeq(_)
SetToSeq(S) ==
    IF S = {} THEN <<>>
    ELSE LET x == CHOOSE y \in S : TRUE IN <<x>> \o SetToSeq(S \ {x})

\* one event to each socket of `tos`
Emit(tos, event, payload) ==
    LET order == SetToSeq(tos)
    IN [i \in 1..Len(order) |-> [to |-> order[i], event |-> event, payload |-> payload]]

\* ------------------------------------------------------------------ Mongoose
\* mutant: the membership test looks at the first participant only
IncludesFirst(list, u) == list # <<>> /\ Head(list) = u

\* room.participants.includes(username)
Includes(list, u) == u \in Range(list)

\* mutant: the first participant is removed, whoever it is (shift)
WithoutFirst(list, u) == IF list = <<>> THEN <<>> ELSE Tail(list)

\* room.participants.filter(p => p !== socket.username)
RECURSIVE Without(_, _)
Without(list, u) ==
    IF list = <<>> THEN <<>>
    ELSE IF Head(list) = u THEN Without(Tail(list), u)
    ELSE <<Head(list)>> \o Without(Tail(list), u)

\* A Query accumulates options until it is awaited: sort() sets the direction
\* of its key in options.sort (a later sort() on the same key replaces it),
\* limit() sets options.limit.
MessageFind(r) == [roomId |-> r, sort |-> 0, limit |-> 0]
QuerySort(q, dir) == [q EXCEPT !.sort = dir]
QueryLimit(q, n) == [q EXCEPT !.limit = n]

InOrder(s, dir) ==
    \A i \in 1..(Len(s) - 1) :
        \/ dir = 0
        \/ dir = 1 /\ s[i].timestamp <= s[i + 1].timestamp
        \/ dir = -1 /\ s[i].timestamp >= s[i + 1].timestamp

\* every order of the documents of S the sort direction allows (documents of
\* equal timestamp come in any order)
Sorted(S, dir) ==
    {s \in [1..Cardinality(S) -> S] :
        /\ \A i, j \in 1..Cardinality(S) : i # j => s[i] # s[j]
        /\ InOrder(s, dir)}

Truncate(s, n) == IF n = 0 \/ Len(s) <= n THEN s ELSE SubSeq(s, 1, n)

\* the results awaiting the query can resolve to
QueryExec(q) ==
    {Truncate(s, q.limit) : s \in Sorted({m \in messages : m.roomId = q.roomId}, q.sort)}

\* Message.find({ roomId }).sort({ timestamp: -1 }).limit(50).sort({ timestamp: 1 })
RecentQuery(r) == QuerySort(QueryLimit(QuerySort(MessageFind(r), -1), RecentLimit), 1)

\* mutant: the route pages its result like the join-room query
AllQueryLimited(r) == QueryLimit(QuerySort(MessageFind(r), 1), RecentLimit)

\* Message.find({ roomId }).sort({ timestamp: 1 })
AllQuery(r) == QuerySort(MessageFind(r), 1)

\* ------------------------------------------------------------------ helpers
Connected(c) == status[c] = "connected"

\* a handler of socket c is suspended at an await
InFlight(c) == h[c].pc # "done"

\* socket c can take a new inbound event
Ready(c) == Connected(c) /\ ~InFlight(c)

\* the handler of socket c returns
Finish(c, ok, events) ==
    /\ h' = [h EXCEPT ![c] = NoHandler]
    /\ out' = [NoOut EXCEPT !.by = c, !.op = h[c].op, !.ok = ok, !.roomId = h[c].roomId,
                  !.username = h[c].username, !.events = events]

\* a handler of one step
Handled(c, op, r, u, ok, events) ==
    /\ h' = h
    /\ out' = [NoOut EXCEPT !.by = c, !.op = op, !.ok = ok, !.roomId = r,
                  !.username = u, !.events = events]

\* mutant: the error goes to the room of the socket as well (io.to)
ErrorEventToRoom(c, text) ==
    Emit({c} \cup InRoom(bound[c].roomId), "error", [message |-> text])

\* socket.emit('error', { message })
ErrorEvent(c, text) == Emit({c}, "error", [message |-> text])

\* another handler holds a read of the Room document of r that it will write
Holds(d, r) ==
    /\ h[d].roomId = r
    /\ ~h[d].isNew
    /\ \/ h[d].op = "join-room" /\ h[d].pc = "save"
       \/ h[d].op = "disconnect" /\ h[d].pc \in {"save", "deleteOne"}


\* the other handlers' documents of room r after its stored document changed
\* (field "stale") or was deleted (field "gone")
Outdate(hs, c, r, field) ==
    [d \in Conns |->
        IF d # c /\ Holds(d, r)
        THEN IF field = "gone" THEN [hs[d] EXCEPT !.gone = TRUE]
             ELSE [hs[d] EXCEPT !.stale = TRUE]
        ELSE hs[d]]

\* ------------------------------------------------------------------ connection
\* io.on('connection', ...)
Connect(c) ==
    /\ status[c] = "none"
    /\ status' = [status EXCEPT ![c] = "connected"]
    /\ out' = NoOut
    /\ UNCHANGED <<bound, subscribed, h, rooms, messages, nextMsgId, clock>>

\* mutant: the clock runs backwards
NowBackwards == MaxClock - clock

\* new Date()
Now == clock

\* Date.now() advances
Tick ==
    /\ clock < MaxClock
    /\ clock' = clock + 1
    /\ out' = NoOut
    /\ UNCHANGED <<status, bound, subscribed, h, rooms, messages, nextMsgId>>

\* ------------------------------------------------------------------ join-room
\* mutant: a socket that is bound keeps its first roomId / username
JoinSocketRoomOnce(c, r, u) ==
    /\ subscribed' = [subscribed EXCEPT ![c] = @ \cup {r}]
    /\ bound' = [bound EXCEPT ![c] =
                    IF @.roomId = Unset THEN [roomId |-> r, username |-> u] ELSE @]

\* socket.join(roomId); socket.roomId = roomId; socket.username = username
JoinSocketRoom(c, r, u) ==
    /\ subscribed' = [subscribed EXCEPT ![c] = @ \cup {r}]
    /\ bound' = [bound EXCEPT ![c] = [roomId |-> r, username |-> u]]

\* the handler from Room.findOne resolving to `room` to its next await
JoinFound(c, r, u, room) ==
    LET start == [NoHandler EXCEPT !.op = "join-room", !.roomId = r, !.username = u]
    IN IF ~room.exists
       THEN \* room = new Room({ roomId, participants: [username] }); await room.save()
            /\ h' = [h EXCEPT ![c] = [start EXCEPT !.pc = "save", !.isNew = TRUE,
                        !.doc = [exists |-> TRUE, participants |-> <<u>>]]]
            /\ UNCHANGED <<subscribed, bound>>
       ELSE IF ~Includes(room.participants, u)
       THEN \* room.participants.push(username); await room.save()
            /\ h' = [h EXCEPT ![c] = [start EXCEPT !.pc = "save",
                        !.doc = [room EXCEPT !.participants = Append(@, u)]]]
            /\ UNCHANGED <<subscribed, bound>>
       ELSE /\ h' = [h EXCEPT ![c] = [start EXCEPT !.pc = "findMessages", !.doc = room]]
            /\ JoinSocketRoom(c, r, u)

\* socket.on('join-room'): await Room.findOne({ roomId })
JoinRoom(c, r, u) ==
    /\ Ready(c)
    /\ \/ /\ JoinFound(c, r, u, rooms[r])
          /\ out' = NoOut
       \/ /\ Handled(c, "join-room", r, u, FALSE, ErrorEvent(c, "Failed to join room"))
          /\ UNCHANGED <<subscribed, bound>>
    /\ UNCHANGED <<status, rooms, messages, nextMsgId, clock>>

\* mutant: the new participant goes to the front of the list (unshift)
RoomSaveUnshift(hc) ==
    LET r == hc.roomId
    IN IF hc.isNew
       THEN IF ~rooms[r].exists
            THEN [ok |-> TRUE, rooms |-> [rooms EXCEPT ![r] = hc.doc]]
            ELSE [ok |-> FALSE, rooms |-> rooms]
       ELSE IF ~hc.gone
            THEN [ok |-> TRUE, rooms |-> [rooms EXCEPT ![r].participants =
                                             <<hc.username>> \o @]]
            ELSE [ok |-> FALSE, rooms |-> rooms]

\* what room.save() writes, or the collection unchanged with ok FALSE when the
\* write is rejected: an insert meets the unique index on roomId; an update is
\* { $push: participants } on the document read, which must still exist
RoomSave(hc) ==
    LET r == hc.roomId
    IN IF hc.isNew
       THEN IF ~rooms[r].exists
            THEN [ok |-> TRUE, rooms |-> [rooms EXCEPT ![r] = hc.doc]]
            ELSE [ok |-> FALSE, rooms |-> rooms]
       ELSE IF ~hc.gone
            THEN [ok |-> TRUE, rooms |-> [rooms EXCEPT ![r].participants =
                                             Append(@, hc.username)]]
            ELSE [ok |-> FALSE, rooms |-> rooms]

\* catch (error) of join-room
JoinFail(c) == Finish(c, FALSE, ErrorEvent(c, "Failed to join room"))

\* resumption after await room.save()
JoinSave(c) ==
    /\ h[c].op = "join-room" /\ h[c].pc = "save"
    /\ LET w == RoomSave(h[c])
       IN \/ /\ w.ok
             /\ rooms' = w.rooms
             /\ h' = Outdate([h EXCEPT ![c].pc = "findMessages", ![c].changed = TRUE],
                             c, h[c].roomId, "stale")
             /\ out' = NoOut
             /\ JoinSocketRoom(c, h[c].roomId, h[c].username)
          \/ /\ JoinFail(c)
             /\ UNCHANGED <<rooms, subscribed, bound>>
    /\ UNCHANGED <<status, messages, nextMsgId, clock>>

\* resumption after await Message.find(...)...: the two emits
JoinFindMessages(c) ==
    /\ h[c].op = "join-room" /\ h[c].pc = "findMessages"
    /\ LET r == h[c].roomId
           u == h[c].username
       IN \/ /\ \E found \in QueryExec(RecentQuery(r)) :
                    Finish(c, TRUE,
                        Emit({c}, "room-joined", [roomId |-> r,
                             participants |-> h[c].doc.participants, messages |-> found])
                        \o Emit(OthersInRoom(c, r), "user-joined",
                             [username |-> u, participants |-> h[c].doc.participants]))
          \/ JoinFail(c)
    /\ UNCHANGED <<status, bound, subscribed, rooms, messages, nextMsgId, clock>>

\* ------------------------------------------------------------------ send-message
\* mutant: the event is stamped when it is emitted, not with message.timestamp
NewMessagePayloadNow(m) ==
    [id |-> m.id, roomId |-> m.roomId, sender |-> m.sender, text |-> m.text,
     timestamp |-> clock]

\* the fields of the new-message event
NewMessagePayload(m) ==
    [id |-> m.id, roomId |-> m.roomId, sender |-> m.sender, text |-> m.text,
     timestamp |-> m.timestamp]

\* socket.on('send-message'): new Message({..., timestamp: new Date() }); await message.save()
SendMessage(c, r, s, t) ==
    /\ Ready(c)
    /\ nextMsgId <= MaxMsgs
    /\ h' = [h EXCEPT ![c] = [NoHandler EXCEPT !.op = "send-message", !.pc = "save",
                !.roomId = r, !.username = s,
                !.msg = [id |-> nextMsgId, roomId |-> r, sender |-> s, text |-> t,
                         timestamp |-> Now]]]
    /\ nextMsgId' = nextMsgId + 1
    /\ out' = NoOut
    /\ UNCHANGED <<status, bound, subscribed, rooms, messages, clock>>

\* mutant: the save replaces the Messages of the room (one document per room)
MessageSaveUpsert(m) == {x \in messages : x.roomId # m.roomId} \cup {m}

\* message.save(): insert of the new document
MessageSave(m) == messages \cup {m}

\* resumption after await message.save(): io.to(roomId).emit('new-message', ...)
SendSave(c) ==
    /\ h[c].op = "send-message" /\ h[c].pc = "save"
    /\ \/ /\ messages' = MessageSave(h[c].msg)
          /\ Finish(c, TRUE,
                Emit(InRoom(h[c].roomId), "new-message", NewMessagePayload(h[c].msg)))
       \/ /\ Finish(c, FALSE, ErrorEvent(c, "Failed to send message"))
          /\ UNCHANGED messages
    /\ UNCHANGED <<status, bound, subscribed, rooms, nextMsgId, clock>>

\* ------------------------------------------------------------------ clear-room-chat
\* mutant: the filter is dropped, every message is deleted
DeleteManyAll(r) == {}

\* Message.deleteMany({ roomId })
DeleteMany(r) == {m \in messages : m.roomId # r}

\* socket.on('clear-room-chat'): await Message.deleteMany; io.to(roomId).emit
ClearRoomChat(c, r) ==
    /\ Ready(c)
    /\ \/ /\ messages' = DeleteMany(r)
          /\ Handled(c, "clear-room-chat", r, Unset, TRUE,
                     Emit(InRoom(r), "room-chat-cleared", <<>>))
       \/ /\ Handled(c, "clear-room-chat", r, Unset, FALSE,
                     ErrorEvent(c, "Failed to clear chat"))
          /\ UNCHANGED messages
    /\ UNCHANGED <<status, bound, subscribed, rooms, nextMsgId, clock>>

\* ------------------------------------------------------------------ typing
\* mutant: the indicator goes to the whole room (io.to), the sender included
TypingEventsToAll(c, r, u, isTyping) ==
    Emit(InRoom(r), "user-typing", [username |-> u, isTyping |-> isTyping])

\* socket.to(data.roomId).emit('user-typing', { username, isTyping })
TypingEvents(c, r, u, isTyping) ==
    Emit(OthersInRoom(c, r), "user-typing", [username |-> u, isTyping |-> isTyping])

\* socket.on('typing'): no await, no try/catch
Typing(c, r, u, isTyping) ==
    /\ Ready(c)
    /\ Handled(c, "typing", r, u, TRUE, TypingEvents(c, r, u, isTyping))
    /\ UNCHANGED <<status, bound, subscribed, rooms, messages, nextMsgId, clock>>


\* ------------------------------------------------------------------ disconnect
\* the transport closes: the socket leaves its rooms, then socket.on('disconnect')
\* runs up to await Room.findOne({ roomId: socket.roomId })
Disconnect(c) ==
    /\ Ready(c)
    /\ status' = [status EXCEPT ![c] = "disconnected"]
    /\ subscribed' = [subscribed EXCEPT ![c] = {}]
    /\ LET r == bound[c].roomId
           u == bound[c].username
       IN IF r # Unset /\ u # Unset
          THEN /\ h' = [h EXCEPT ![c] = [NoHandler EXCEPT !.op = "disconnect",
                           !.pc = "findOne", !.roomId = r, !.username = u]]
               /\ out' = NoOut
          ELSE Handled(c, "disconnect", r, u, TRUE, <<>>)
    /\ UNCHANGED <<bound, rooms, messages, nextMsgId, clock>>

\* mutant: the list is never taken for empty, the filtered list is saved
NoneLeftNever(list) == FALSE

\* room.participants.length === 0
NoneLeft(list) == Len(list) = 0

\* resumption after await Room.findOne: filter, then deleteOne or save
DisconnectFindOne(c) ==
    /\ h[c].op = "disconnect" /\ h[c].pc = "findOne"
    /\ \/ LET room == rooms[h[c].roomId]
              rest == Without(room.participants, h[c].username)
          IN IF ~room.exists
             THEN Finish(c, TRUE, <<>>)
             ELSE /\ out' = NoOut
                  /\ IF NoneLeft(rest)
                     THEN h' = [h EXCEPT ![c].pc = "deleteOne", ![c].doc = room]
                     ELSE h' = [h EXCEPT ![c].pc = "save",
                                         ![c].doc = [room EXCEPT !.participants = rest],
                                         ![c].changed = (rest # room.participants)]
       \/ Finish(c, FALSE, <<>>)
    /\ UNCHANGED <<status, bound, subscribed, rooms, messages, nextMsgId, clock>>

\* mutant: the filter matches no document
DeleteOneNothing(r) == rooms

\* Room.deleteOne({ roomId: socket.roomId })
DeleteOne(r) == [rooms EXCEPT ![r] = NoRoom]

\* resumption after await Room.deleteOne
DisconnectDeleteOne(c) ==
    /\ h[c].op = "disconnect" /\ h[c].pc = "deleteOne"
    /\ \/ /\ rooms' = DeleteOne(h[c].roomId)
          /\ h' = Outdate([h EXCEPT ![c] = NoHandler], c, h[c].roomId, "gone")
          /\ out' = [NoOut EXCEPT !.by = c, !.op = "disconnect", !.roomId = h[c].roomId,
                        !.username = h[c].username]
       \/ /\ Finish(c, FALSE, <<>>)
          /\ UNCHANGED rooms
    /\ UNCHANGED <<status, bound, subscribed, messages, nextMsgId, clock>>

\* mutant: the update carries no version condition, the last save wins
RoomSetUnversioned(hc) ==
    LET r == hc.roomId
    IN IF ~hc.changed
       THEN [ok |-> TRUE, rooms |-> rooms]
       ELSE IF ~hc.gone
       THEN [ok |-> TRUE, rooms |-> [rooms EXCEPT ![r].participants = hc.doc.participants]]
       ELSE [ok |-> FALSE, rooms |-> rooms]

\* what room.save() writes after room.participants was assigned the filtered
\* array: { $set: participants } on the document read, which must still exist
\* in the version read; nothing is written when the filter removed nothing
RoomSet(hc) ==
    LET r == hc.roomId
    IN IF ~hc.changed
       THEN [ok |-> TRUE, rooms |-> rooms]
       ELSE IF ~hc.gone /\ ~hc.stale
       THEN [ok |-> TRUE, rooms |-> [rooms EXCEPT ![r].participants = hc.doc.participants]]
       ELSE [ok |-> FALSE, rooms |-> rooms]

\* resumption after await room.save(): socket.to(socket.roomId).emit('user-left', ...)
DisconnectSave(c) ==
    /\ h[c].op = "disconnect" /\ h[c].pc = "save"
    /\ LET w == RoomSet(h[c])
           r == h[c].roomId
       IN \/ /\ w.ok
             /\ rooms' = w.rooms
             /\ h' = IF h[c].changed
                     THEN Outdate([h EXCEPT ![c] = NoHandler], c, r, "stale")
                     ELSE [h EXCEPT ![c] = NoHandler]
             /\ out' = [NoOut EXCEPT !.by = c, !.op = "disconnect", !.roomId = r,
                           !.username = h[c].username,
                           !.events = Emit(OthersInRoom(c, r), "user-left",
                               [username |-> h[c].username,
                                participants |-> h[c].doc.participants])]
          \/ /\ Finish(c, FALSE, <<>>)
             /\ UNCHANGED rooms
    /\ UNCHANGED <<status, bound, subscribed, messages, nextMsgId, clock>>

\* ------------------------------------------------------------------ REST routes
Responded(route, r, resp) ==
    out' = [NoOut EXCEPT !.by = "http", !.op = route, !.roomId = r,
               !.ok = (resp.status # 500), !.resp = resp]

\* app.get('/api/rooms/:roomId')
GetRoom(r) ==
    /\ \/ Responded("get-room", r, [NoResp EXCEPT
                !.status = IF rooms[r].exists THEN 200 ELSE 404, !.room = rooms[r]])
       \/ Responded("get-room", r, [NoResp EXCEPT !.status = 500])
    /\ UNCHANGED <<status, bound, subscribed, h, rooms, messages, nextMsgId, clock>>

\* app.get('/api/rooms/:roomId/messages')
GetRoomMessages(r) ==
    /\ \/ \E found \in QueryExec(AllQuery(r)) :
            Responded("get-room-messages", r,
                      [NoResp EXCEPT !.status = 200, !.messages = found])
       \/ Responded("get-room-messages", r, [NoResp EXCEPT !.status = 500])
    /\ UNCHANGED <<status, bound, subscribed, h, rooms, messages, nextMsgId, clock>>

\* ------------------------------------------------------------------ specifications
\* no handler of another socket is suspended at an await
Alone(c) == \A d \in Conns \ {c} : ~InFlight(d)

Quiet == \A c \in Conns : ~InFlight(c)

\* --- Spec: the chat.  Handlers interleave at their awaits; messages go to
\* every roomId; every socket joins ChatRoom, under a username of its own.
ChatRoom == "r1"
ChatUser(c) == IF c = "c1" THEN "alice" ELSE "bob"

Socket(c) ==
    \/ Connect(c) /\ UNCHANGED history
    \/ JoinRoom(c, ChatRoom, ChatUser(c)) /\ UNCHANGED history
    \/ JoinSave(c) /\ UNCHANGED history
    \/ JoinFindMessages(c) /\ UNCHANGED history
    \/ \E r \in RoomIds, s \in Senders, t \in Texts :
          SendMessage(c, r, s, t) /\ UNCHANGED history
    \/ SendSave(c) /\ UNCHANGED history
    \/ \E r \in RoomIds : ClearRoomChat(c, r) /\ UNCHANGED history
    \/ \E r \in RoomIds, b \in BOOLEAN : Typing(c, r, ChatUser(c), b) /\ UNCHANGED history
    \/ Disconnect(c) /\ UNCHANGED history
    \/ DisconnectFindOne(c) /\ UNCHANGED history
    \/ DisconnectDeleteOne(c) /\ UNCHANGED history
    \/ DisconnectSave(c) /\ UNCHANGED history

\* a REST request is served between the socket handlers: each route makes one
\* store read, and every store a suspended handler leaves is also the store
\* some returned handler leaves
Http ==
    \/ Quiet /\ GetRoom(ChatRoom) /\ UNCHANGED history
    \/ \E r \in RoomIds : Quiet /\ GetRoomMessages(r) /\ UNCHANGED history

Next ==
    \/ Tick /\ UNCHANGED history
    \/ Http
    \/ \E c \in Conns : Socket(c)

Spec == Init /\ [][Next]_vars

\* --- SpecSeq: presence.  Every handler completes before the next one
\* starts; sockets join every room under every username; the history of the
\* handlers run on each room is recorded.
JoinHistory(c, r, u) ==
    /\ joinSeq' = [joinSeq EXCEPT ![r] =
            IF ~rooms[r].exists THEN <<u>>
            ELSE IF @ = Poison \/ u \in Range(@) THEN Poison
            ELSE Append(@, u)]
    /\ joinFault' = [joinFault EXCEPT ![r] =
            (IF ~rooms[r].exists THEN FALSE ELSE @) \/ out'.by = c]
    /\ emptied' = [emptied EXCEPT ![r] = "no"]
    /\ UNCHANGED socketHistory

DisconnectHistory(c) ==
    LET r == bound[c].roomId
    IN /\ joinSeq' = [x \in RoomIds |-> IF x = r THEN Poison ELSE joinSeq[x]]
       /\ emptied' = [x \in RoomIds |->
              IF x = r /\ rooms[r].participants = <<bound[c].username>>
              THEN "pending" ELSE emptied[x]]
       /\ UNCHANGED <<joinFault, socketHistory>>

\* a later step of the handler of socket c
Resumed(c) ==
    LET r == h[c].roomId
        returned == out'.by = c
    IN /\ joinFault' = [x \in RoomIds |->
              joinFault[x] \/ (x = r /\ h[c].op = "join-room" /\ returned /\ ~out'.ok)]
       /\ emptied' = [x \in RoomIds |->
              IF x = r /\ h[c].op = "disconnect" /\ returned /\ emptied[x] = "pending"
              THEN (IF out'.ok THEN "ok" ELSE "failed") ELSE emptied[x]]
       /\ UNCHANGED <<joinSeq, socketHistory>>

SocketSeq(c) ==
    \/ Alone(c) /\ Connect(c) /\ UNCHANGED history
    \/ \E r \in RoomIds, u \in Usernames :
          Alone(c) /\ JoinRoom(c, r, u) /\ JoinHistory(c, r, u)
    \/ Alone(c) /\ JoinSave(c) /\ Resumed(c)
    \/ Alone(c) /\ JoinFindMessages(c) /\ Resumed(c)
    \/ Alone(c) /\ Disconnect(c) /\ DisconnectHistory(c)
    \/ Alone(c) /\ DisconnectFindOne(c) /\ Resumed(c)
    \/ Alone(c) /\ DisconnectDeleteOne(c) /\ Resumed(c)
    \/ Alone(c) /\ DisconnectSave(c) /\ Resumed(c)

HttpSeq == \E r \in RoomIds : Quiet /\ GetRoom(r) /\ UNCHANGED history

NextSeq ==
    \/ HttpSeq
    \/ \E c \in Conns : SocketSeq(c)

SpecSeq == Init /\ [][NextSeq]_vars

\* --- SpecOne: one socket, every room and username; what the socket joined
\* as and whether a store call was rejected are recorded.
OneConn == "c1"

SocketHistory(c) ==
    /\ joinedAs' = [joinedAs EXCEPT ![c] =
            IF h'[c].op = "join-room" /\ h'[c].pc = "findMessages"
            THEN @ \cup {<<h'[c].roomId, h'[c].username>>} ELSE @]
    /\ faulted' = (faulted \/ (out'.by = c /\ ~out'.ok))
    /\ joinStart' =
          IF h'[c].op # "join-room" THEN NoStart
          ELSE IF h[c].op # "join-room"
          THEN [bound |-> bound[c], subscribed |-> subscribed[c],
                room |-> rooms[h'[c].roomId]]
          ELSE joinStart
    /\ UNCHANGED <<roomHistory, inbox>>

SocketOne(c) ==
    \/ Connect(c) /\ SocketHistory(c)
    \/ \E r \in RoomIds, u \in Usernames : JoinRoom(c, r, u) /\ SocketHistory(c)
    \/ JoinSave(c) /\ SocketHistory(c)
    \/ JoinFindMessages(c) /\ SocketHistory(c)
    \/ Disconnect(c) /\ SocketHistory(c)
    \/ DisconnectFindOne(c) /\ SocketHistory(c)
    \/ DisconnectDeleteOne(c) /\ SocketHistory(c)
    \/ DisconnectSave(c) /\ SocketHistory(c)

NextOne == SocketOne(OneConn)

SpecOne == Init /\ [][NextOne]_vars

\* --- SpecRace: presence under interleaving.  The join-room and disconnect
\* handlers of the sockets interleave at their awaits; sockets join every
\* room under every username.
SocketRace(c) ==
    \/ Connect(c) /\ UNCHANGED history
    \/ \E r \in RoomIds, u \in Usernames : JoinRoom(c, r, u) /\ UNCHANGED history
    \/ JoinSave(c) /\ UNCHANGED history
    \/ JoinFindMessages(c) /\ UNCHANGED history
    \/ Disconnect(c) /\ UNCHANGED history
    \/ DisconnectFindOne(c) /\ UNCHANGED history
    \/ DisconnectDeleteOne(c) /\ UNCHANGED history
    \/ DisconnectSave(c) /\ UNCHANGED history

NextRace == \E c \in Conns : SocketRace(c)

SpecRace == Init /\ [][NextRace]_vars

\* --- SpecSend: message order.  The sockets join ChatRoom and send to it,
\* their handlers interleaved; what each socket receives is recorded.
Received(c) ==
    /\ inbox' = [d \in Conns |->
            inbox[d] \o
            [i \in 1..Cardinality({k \in 1..Len(out'.events) :
                        out'.events[k].to = d /\ out'.events[k].event = "new-message"}) |->
                [id |-> out'.events[1].payload.id,
                 timestamp |-> out'.events[1].payload.timestamp]]]
    /\ UNCHANGED <<roomHistory, joinedAs, faulted, joinStart>>

SocketSend(c) ==
    \/ Connect(c) /\ UNCHANGED history
    \/ JoinRoom(c, ChatRoom, ChatUser(c)) /\ UNCHANGED history
    \/ JoinSave(c) /\ UNCHANGED history
    \/ JoinFindMessages(c) /\ UNCHANGED history
    \/ \E s \in Senders, t \in Texts :
          SendMessage(c, ChatRoom, s, t) /\ UNCHANGED history
    \/ SendSave(c) /\ Received(c)

NextSend ==
    \/ Tick /\ UNCHANGED history
    \/ Quiet /\ GetRoomMessages(ChatRoom) /\ UNCHANGED history
    \/ \E c \in Conns : SocketSend(c)

SpecSend == Init /\ [][NextSend]_vars

\* ------------------------------------------------------------------ claims
\* the events of kind ev that the output o carries for socket d
EventsTo(o, d, ev) ==
    {i \in 1..Len(o.events) : o.events[i].to = d /\ o.events[i].event = ev}

EventsOf(o, ev) == {i \in 1..Len(o.events) : o.events[i].event = ev}

\* the join-room handlers run on room r since it had no Room record form a
\* sequence of pairwise distinct usernames with no other handler on r between
JoinsOnly(r) == joinSeq[r] # <<>> /\ joinSeq[r] # Poison

Rejoins(c) ==
    /\ h[c].pc = "done"
    /\ h'[c].op = "join-room"
    /\ rooms[h'[c].roomId].exists
    /\ h'[c].username \in Range(rooms[h'[c].roomId].participants)

\* the handler of such a join-room returns
RejoinReturns(c) ==
    /\ h[c].op = "join-room" /\ h[c].pc = "findMessages" /\ ~h[c].changed
    /\ h'[c].pc = "done"

\* C2: a join-room under a username already in the Room's participants goes
\* on without room.save() and leaves the Room collection as it was, at its
\* first step and when it returns; the list it replies with is the list read.
C2_RejoinNoWrite ==
    [][\A c \in Conns :
          /\ Rejoins(c) =>
                /\ rooms' = rooms
                /\ h'[c].pc = "findMessages"
                /\ ~h'[c].changed
                /\ h'[c].doc = rooms[h'[c].roomId]
          /\ RejoinReturns(c) => rooms' = rooms]_vars

\* a re-join into a room of two participants is waiting for its messages
C2_Witness ==
    \E c \in Conns :
        /\ h[c].op = "join-room" /\ h[c].pc = "findMessages" /\ ~h[c].changed
        /\ Len(h[c].doc.participants) = 2
        /\ h[c].doc.participants[2] = h[c].username
        /\ rooms[h[c].roomId] = h[c].doc


\* the join-room handler of socket c replies in this step
JoinReplies(c) ==
    /\ h[c].op = "join-room" /\ h[c].pc = "findMessages"
    /\ out'.by = c /\ out'.ok

\* C3: the messages of room-joined are at most RecentLimit, in ascending
\* timestamp order, and they are the most recent ones of the room: no message
\* of the room left out is newer than one that is included.
C3_RecentMessages ==
    [][\A c \in Conns :
          JoinReplies(c) =>
            LET found == out'.events[1].payload.messages
                all == {m \in messages : m.roomId = h[c].roomId}
            IN /\ Len(found) <= RecentLimit
               /\ InOrder(found, 1)
               /\ Range(found) \subseteq all
               /\ \A m \in all \ Range(found), k \in Range(found) :
                      m.timestamp <= k.timestamp]_vars

\* the send-message handler of socket c returns after message.save() resolved
SendReturns(c) ==
    /\ h[c].op = "send-message" /\ h[c].pc = "save"
    /\ out'.by = c /\ out'.ok

\* exactly one new-message, carrying the persisted message, for every socket
\* in the room and nothing for any other socket
Broadcast(c) ==
    LET m == h[c].msg
    IN /\ m \in messages'
       /\ \A i \in 1..Len(out'.events) :
             /\ out'.events[i].event = "new-message"
             /\ out'.events[i].payload = [id |-> m.id, roomId |-> m.roomId,
                    sender |-> m.sender, text |-> m.text, timestamp |-> m.timestamp]
       /\ \A d \in Conns :
             Cardinality(EventsTo(out', d, "new-message")) =
                IF m.roomId \in subscribed[d] THEN 1 ELSE 0

\* C4 as stated: when the write succeeds, one new-message with the persisted
\* message's fields goes to every member of the room, and the sender is among
\* the recipients.
C4_BroadcastToSender ==
    [][\A c \in Conns :
          SendReturns(c) => Broadcast(c) /\ EventsTo(out', c, "new-message") # {}]_vars

\* C4 amended: ... and the sender is among the recipients exactly when it is
\* itself in the room the message names.
C4_Broadcast ==
    [][\A c \in Conns :
          SendReturns(c) =>
             /\ Broadcast(c)
             /\ EventsTo(out', c, "new-message") # {} <=> h[c].roomId \in subscribed[c]]_vars

\* a message sent after the tick reached both sockets, its sender included
C4_Witness ==
    /\ out.op = "send-message" /\ out.ok
    /\ Len(out.events) = 2
    /\ EventsTo(out, out.by, "new-message") # {}
    /\ out.events[1].payload.timestamp = 1

\* C5: a join-room, send-message or clear-room-chat handler in which a store
\* call is rejected returns at once (no retry), having emitted one error
\* event, to its own socket, and nothing else; it writes nothing in that step;
\* a handler that succeeds emits no error.
C5_ErrorToCallerOnly ==
    [][\A c \in Conns :
          (out'.by = c /\ out'.op \in {"join-room", "send-message", "clear-room-chat"}) =>
             IF out'.ok
             THEN EventsOf(out', "error") = {}
             ELSE /\ Len(out'.events) = 1
                  /\ out'.events[1].to = c
                  /\ out'.events[1].event = "error"
                  /\ h'[c] = NoHandler
                  /\ rooms' = rooms /\ messages' = messages]_vars

\* a handler failed on a socket that shares its room with another socket
C5_Witness ==
    /\ ~out.ok
    /\ out.op \in {"join-room", "send-message", "clear-room-chat"}
    /\ out.events[1].event = "error"
    /\ \E d \in Conns \ {out.by} :
          bound[out.by].roomId # Unset /\ bound[out.by].roomId \in subscribed[d]

\* C6: a clear-room-chat(roomId) that succeeds leaves no Message of that
\* roomId, keeps every Message of another roomId and every Room record.
C6_ClearFrame ==
    [][\A c \in Conns :
          (out'.by = c /\ out'.op = "clear-room-chat" /\ out'.ok) =>
             /\ \A m \in messages' : m.roomId # out'.roomId
             /\ \A m \in messages : m.roomId # out'.roomId => m \in messages'
             /\ messages' \subseteq messages
             /\ rooms' = rooms]_vars

\* a room was cleared while there is a Room record and another room keeps a message
C6_Witness ==
    /\ out.op = "clear-room-chat" /\ out.ok
    /\ messages # {}
    /\ \E r \in RoomIds : rooms[r].exists


DisconnectStep(c, pc) == h[c].op = "disconnect" /\ h[c].pc = pc /\ h'[c] # h[c]

\* the room socket c is bound to has a participant other than its username
HasOther(c) ==
    /\ rooms[h[c].roomId].exists
    /\ \E p \in Range(rooms[h[c].roomId].participants) : p # h[c].username

\* the Room record stays, without the username and with the others in their
\* order; user-left { username, that list } goes once to every socket still
\* in the room, and to no other socket
Left(c) ==
    LET r == h[c].roomId
        u == h[c].username
        rest == SelectSeq(rooms[r].participants, LAMBDA p : p # u)
    IN /\ out'.by = c /\ out'.ok
       /\ rooms'[r].exists
       /\ rooms'[r].participants = rest
       /\ \A i \in 1..Len(out'.events) :
             /\ out'.events[i].event = "user-left"
             /\ out'.events[i].payload = [username |-> u, participants |-> rest]
       /\ \A d \in Conns :
             Cardinality(EventsTo(out', d, "user-left")) =
                IF d # c /\ r \in subscribed[d] THEN 1 ELSE 0

C9_NoOrphan ==
    ~faulted =>
        \A r \in RoomIds : \A u \in Range(rooms[r].participants) :
            \E c \in Conns :
                /\ <<r, u>> \in joinedAs[c]
                /\ Connected(c) \/ InFlight(c)

C11_TypingFrame ==
    [][\A c \in Conns :
          (out'.by = c /\ out'.op = "typing") =>
             /\ rooms' = rooms /\ messages' = messages
             /\ out'.ok
             /\ \A i \in 1..Len(out'.events) :
                   /\ out'.events[i].event = "user-typing"
                   /\ out'.events[i].payload.username = out'.username
                   /\ out'.events[i].payload.isTyping \in BOOLEAN
             /\ \A d \in Conns :
                   Cardinality(EventsTo(out', d, "user-typing")) =
                      IF d # c /\ out'.roomId \in subscribed[d] THEN 1 ELSE 0]_vars

\* a member of the room typed and the other member got the indicator
C11_Witness ==
    /\ out.op = "typing"
    /\ out.roomId \in subscribed[out.by]
    /\ Len(out.events) = 1
    /\ out.events[1].to # out.by
    /\ messages # {}

\* the Messages of room r in the store
StoredIn(r) == {m \in messages : m.roomId = r}

\* get-room-messages answers
MessagesReturned == out'.by = "http" /\ out'.op = "get-room-messages"

\* the answer is 200 with every stored Message of the room, once, in
\* ascending timestamp order
AllAscending ==
    LET found == out'.resp.messages
    IN /\ out'.resp.status = 200
       /\ Range(found) = StoredIn(out'.roomId)
       /\ Len(found) = Cardinality(StoredIn(out'.roomId))
       /\ \A i \in 1..(Len(found) - 1) : found[i].timestamp <= found[i + 1].timestamp

\* every new-message event a step emits carries the fields of a Message that
\* is in the store when the step has been taken
Announced ==
    \A i \in EventsOf(out', "new-message") :
        \E m \in messages' :
            out'.events[i].payload = [id |-> m.id, roomId |-> m.roomId,
                sender |-> m.sender, text |-> m.text, timestamp |-> m.timestamp]

\* the Message a send-message builds is stamped no earlier than the event is
\* received, a successful save stores that Message, and a stored Message
\* stays in the store until a clear-room-chat of its room
Persisted ==
    /\ \A c \in Conns :
          (h[c].op # "send-message" /\ h'[c].op = "send-message") =>
             /\ h'[c].msg.timestamp >= clock
             /\ h'[c].msg.roomId = h'[c].roomId
    /\ \A c \in Conns : SendReturns(c) => h[c].msg \in messages'
    /\ \A m \in messages :
          m \in messages' \/ (out'.op = "clear-room-chat" /\ out'.roomId = m.roomId)

BeforeJoin(c, r) ==
    IF h[c].op = "join-room" THEN joinStart
    ELSE [bound |-> bound[c], subscribed |-> subscribed[c], room |-> rooms[r]]

\* C13: the bound roomId / username of a socket and its room subscriptions
\* are set by join-room handlers only, and a join-room that returns with an
\* error leaves the socket's bound fields, its subscriptions and the Room
\* record as they were when the handler started.
C13_FailedJoinNoEffect ==
    [][\A c \in Conns :
          /\ (bound'[c] # bound[c] \/ ~(subscribed'[c] \subseteq subscribed[c])) =>
                 h'[c].op = "join-room"
          /\ (out'.by = c /\ out'.op = "join-room" /\ ~out'.ok) =>
                 LET pre == BeforeJoin(c, out'.roomId)
                 IN /\ bound'[c] = pre.bound
                    /\ subscribed'[c] = pre.subscribed
                    /\ rooms'[out'.roomId] = pre.room]_vars

\* the disconnect handler of socket d is about to save the list it filtered
\* from a Room document that another handler has saved since d read it
SavesStale(d) ==
    /\ h[d].op = "disconnect" /\ h[d].pc = "save"
    /\ h[d].changed /\ h[d].stale /\ ~h[d].gone

\* C14: when two disconnect handlers of different usernames have both read
\* the Room before either saves, the handler that saves second removes
\* nothing: its save is rejected, the list the first one wrote stays, and it
\* still contains the second handler's username.
C14_LostRemoval ==
    [][\A d \in Conns :
          (SavesStale(d) /\ h'[d] # h[d]) =>
             /\ out'.by = d /\ ~out'.ok
             /\ rooms' = rooms
             /\ h[d].username \in Range(rooms'[h[d].roomId].participants)]_vars

\* the first of two interleaved disconnects has saved the list without its
\* own username; the second, already disconnected, read before that save
C14_Witness ==
    \E c, d \in Conns :
       /\ c # d
       /\ out.by = c /\ out.op = "disconnect" /\ out.ok
       /\ status[c] = "disconnected" /\ status[d] = "disconnected"
       /\ SavesStale(d)
       /\ h[d].roomId = out.roomId /\ h[d].username # out.username
       /\ rooms[out.roomId].exists
       /\ out.username \notin Range(rooms[out.roomId].participants)
       /\ h[d].username \in Range(rooms[out.roomId].participants)

\* socket c has disconnected and its disconnect handler has returned
Departed(c) == status[c] = "disconnected" /\ ~InFlight(c)

\* C15: a join-room on a socket that has joined before replies room-joined
\* with no error and leaves the socket bound to the new roomId / username
\* (and subscribed to both rooms); the disconnect handler writes only the
\* Room the socket is bound to; so, with no store call rejected, once the
\* socket has gone every other <<roomId, username>> it joined as is still in
\* that Room's participants.
C15_Rebinding ==
    /\ [][\A c \in Conns :
             /\ (JoinReplies(c) /\ joinStart.bound.roomId # Unset) =>
                   /\ EventsOf(out', "error") = {}
                   /\ EventsTo(out', c, "room-joined") # {}
                   /\ bound'[c] = [roomId |-> h[c].roomId, username |-> h[c].username]
                   /\ h[c].roomId \in subscribed'[c]
             /\ h[c].op = "disconnect" =>
                   \A r \in RoomIds \ {h[c].roomId} : rooms'[r] = rooms[r]]_vars
    /\ [](\A c \in Conns :
             (Departed(c) /\ ~faulted) =>
                \A p \in joinedAs[c] \ {<<bound[c].roomId, bound[c].username>>} :
                   /\ rooms[p[1]].exists
                   /\ p[2] \in Range(rooms[p[1]].participants))

\* the socket joined r2, then r1, and has gone: r1 was cleaned, r2 keeps it
C15_Witness ==
    \E c \in Conns, u \in Usernames :
       /\ Departed(c) /\ ~faulted
       /\ out.by = c /\ out.op = "disconnect"
       /\ bound[c] = [roomId |-> "r1", username |-> u]
       /\ <<"r2", u>> \in joinedAs[c]
       /\ ~rooms["r1"].exists
       /\ rooms["r2"].participants = <<u>>

\* C16: no Room's participants list contains the same username twice.
C16_NoDuplicate ==
    \A r \in RoomIds :
        \A i, j \in 1..Len(rooms[r].participants) :
            rooms[r].participants[i] = rooms[r].participants[j] => i = j

\* C17: a step changes the Message collection only when a send-message
\* returns, adding exactly its one Message, or when a clear-room-chat returns,
\* deleting exactly the Messages of its roomId; join-room, typing, disconnect
\* and both REST routes leave it unchanged, also the disconnect step that
\* deletes a Room.
C17_MessageFrame ==
    [][/\ messages' # messages =>
             \/ \E c \in Conns :
                   /\ SendReturns(c)
                   /\ h[c].msg \notin messages
                   /\ messages' = messages \cup {h[c].msg}
             \/ /\ out'.op = "clear-room-chat" /\ out'.ok
                /\ messages' = {m \in messages : m.roomId # out'.roomId}
       /\ out'.op \in {"join-room", "typing", "disconnect", "get-room",
                       "get-room-messages"} => messages' = messages
       /\ (\E r \in RoomIds : rooms[r].exists /\ ~rooms'[r].exists) =>
             messages' = messages]_vars

\* the last participant has left and the Room is deleted; its two Messages
\* are still stored
C17_Witness ==
    /\ out.op = "disconnect" /\ out.ok
    /\ out.roomId \in RoomIds
    /\ ~rooms[out.roomId].exists
    /\ Cardinality(StoredIn(out.roomId)) = 2

\* C18: every persisted Room record has a non-empty participants list, under
\* every interleaving of the join-room and disconnect handlers.
C18_NonEmpty ==
    \A r \in RoomIds : rooms[r].exists => rooms[r].participants # <<>>

\* a disconnect has saved a list of one participant while the handler of the
\* other socket on the same room is suspended
C18_Witness ==
    /\ out.op = "disconnect" /\ out.ok
    /\ out.roomId \in RoomIds
    /\ rooms[out.roomId].exists
    /\ Len(rooms[out.roomId].participants) = 1
    /\ \E d \in Conns : d # out.by /\ InFlight(d) /\ h[d].roomId = out.roomId

\* C19: a socket receives two new-message events against the order of their
\* timestamps only when the handlers overlapped (the Message received second
\* was built first, and its handler was suspended at message.save() while the
\* other handler ran); get-room-messages lists Messages by ascending
\* timestamp whatever the order of the broadcasts.
C19_BroadcastOrder ==
    /\ [](\A d \in Conns : \A p, q \in 1..Len(inbox[d]) :
             (p < q /\ inbox[d][q].timestamp < inbox[d][p].timestamp) =>
                inbox[d][q].id < inbox[d][p].id)
    /\ [][(MessagesReturned /\ out'.ok) =>
             \A i \in 1..(Len(out'.resp.messages) - 1) :
                out'.resp.messages[i].timestamp <= out'.resp.messages[i + 1].timestamp]_vars

\* a socket received the two messages of the room in the order opposite to
\* the one get-room-messages returns them in
C19_Witness ==
    /\ out.by = "http" /\ out.op = "get-room-messages" /\ out.resp.status = 200
    /\ Len(out.resp.messages) = 2
    /\ out.resp.messages[1].timestamp < out.resp.messages[2].timestamp
    /\ \E d \in Conns :
          /\ Len(inbox[d]) = 2
          /\ inbox[d][1].id = out.resp.messages[2].id
          /\ inbox[d][2].id = out.resp.messages[1].id

====
